---- MODULE Spec2Model ----
(***************************************************************************)
(* Sugar Creek flow prediction: the temporal alignment, nearest-match      *)
(* scan, feature assembly and recorder de-duplication of                   *)
(*   src/app.py                 (real-time Streamlit page)                 *)
(*   src/pages/1_Historical.py  (historical lookup page)                   *)
(*   src/record_real_time.py    (scheduled recorder script)                *)
(*                                                                         *)
(* Representation.                                                         *)
(*  - An absolute instant is an integer number of seconds since an epoch   *)
(*    in UTC.  A naive datetime, and every formatted timestamp string, is  *)
(*    the integer its wall-clock fields spell (seconds since the epoch     *)
(*    read without a zone).  Converting between the two adds or subtracts  *)
(*    a UTC offset, exactly as strptime/astimezone/strftime do.            *)
(*  - The modelled instants lie in winter, where America/Chicago is UTC-6. *)
(*  - A float is [kind |-> "num", v |-> n]; NaN is [kind |-> "nan"].       *)
(*  - A timestamp string is [kind |-> "ts", wall |-> w]; the sentinel      *)
(*    "N/A" is [kind |-> "N/A"].                                           *)
(***************************************************************************)
EXTENDS Integers, Sequences, FiniteSets, TLC

VARIABLES
    scan_in,        \* SpecScan: the arguments of one nearest-match scan
    scan_out,       \* SpecScan: what the scan returned ("pending" before)
    time_in,        \* SpecTime: an observation, the host zone, the variant
    time_key,       \* SpecTime: the timestamp string fetch_real_time_data made
    time_out,       \* SpecTime: the window fetch_historical_data computed
    sheet,          \* the Observation Log: sheet.get_all_values(), row by row
    rec_pc,         \* SpecLog: where each recorder run stands
    rec_key,        \* SpecLog: reference_timestamp of each run
    rec_val,        \* SpecLog: prediction of each run
    existing_data,  \* SpecLog: what each run read from the sheet
    overlapped,     \* SpecLog: some run read the sheet while another run was
                    \* between its read and its append (history variable)
    variant,        \* Spec: "app", "historical" or "recorder"
    host_off,       \* Spec: UTC offset of the machine's zone
    model_file,     \* Spec: what scpm2.pkl holds
    selected,       \* Spec: selected_datetime of the historical page
    pc,             \* Spec: [at, i, k], the statement the run is at
    xgb_model,      \* Spec: the loaded model, or unbound
    faults,         \* Spec: fetches that failed so far (history variable)
    real_time_data, \* Spec: dict feature -> value
    timestamps,     \* Spec: dict creek -> timestamp string or "N/A"
    lag_data,       \* Spec: dict feature -> value
    reference_timestamp, \* Spec: the recorder's reference
    requests,       \* Spec: the fetches issued so far (history variable)
    observed,       \* Spec: dict creek -> instant of the observation its
                    \* real-time fetch was answered with (history variable)
    model_input,    \* Spec: the row handed to predict
    prediction,     \* Spec: what predict returned
    failure,        \* Spec: the exception or exit that ended the run
    appends         \* Spec: rows this run appended (history variable)

scanVars == <<scan_in, scan_out>>
timeVars == <<time_in, time_key, time_out>>
logVars == <<sheet, rec_pc, rec_key, rec_val, existing_data, overlapped>>
cfgVars == <<variant, host_off, model_file, selected>>
runVars == <<pc, xgb_model, faults, real_time_data, timestamps, lag_data,
             reference_timestamp, requests, observed, model_input, prediction,
             failure, appends>>
pipeVars == <<cfgVars, runVars>>
vars == <<scan_in, scan_out, time_in, time_key, time_out, sheet, rec_pc,
          rec_key, rec_val, existing_data, overlapped, cfgVars, runVars>>

---------------------------------------------------------------------------
(* Units of time, in seconds *)
Hour == 60 * 60
Minute == Hour \div 60
Quarter == Hour \div 4

\* timedelta(minutes=30): half-width of the search window
HalfWindowMinutes == 30

\* pytz.timezone("America/Chicago") in winter: UTC-6
ChicagoOff == 0 - 6 * Hour

\* UTC offsets of the machine the program runs on (astimezone() without an
\* argument, and astimezone(tz) of a naive datetime, use the system zone)
HostOffsets == {ChicagoOff, 0, 1 * Hour}

\* UTC offsets the Gauge Data Source writes into a dateTime
RawOffsets == {ChicagoOff, 0}

NaN == [kind |-> "nan", v |-> 0]
Num(n) == [kind |-> "num", v |-> n]
NA == [kind |-> "N/A", wall |-> 0]
TS(w) == [kind |-> "ts", wall |-> w]

---------------------------------------------------------------------------
(* JSON entries of a series: {"dateTime": ..., "value": ...}.  A field is  *)
(* well-formed, present but unparseable ("bad"), or absent ("missing").    *)

Iso(i, off) == [kind |-> "iso", wall |-> i + off, off |-> off]
BadDateTime == [kind |-> "bad", wall |-> 0, off |-> 0]
NoDateTime == [kind |-> "missing", wall |-> 0, off |-> 0]
NumStr(n) == [kind |-> "num", v |-> n]
BadValue == [kind |-> "bad", v |-> 0]
NoValue == [kind |-> "missing", v |-> 0]
Entry(d, v) == [dateTime |-> d, value |-> v]

\* datetime.strptime(s, "%Y-%m-%dT%H:%M:%S.%f%z"): the absolute instant of
\* an offset-bearing string; raises on a missing key or a malformed string
DateTimeRaises(e) == e.dateTime.kind # "iso"
ParseIso(d) == d.wall - d.off

\* float(entry["value"]); raises on a missing key or a non-numeric string
FloatRaises(e) == e.value.kind # "num"
Float(e) == Num(e.value.v)

\* aware.astimezone().strftime("%m/%d/%Y %I:%M %p"): host wall clock, to
\* the minute (the seconds are not printed)
FormatDisplay(i, host) == ((i + host) \div Minute) * Minute

\* datetime.strptime(s, "%m/%d/%Y %I:%M %p").astimezone(timezone.utc): a
\* naive wall clock is read in the host's zone
ParseDisplay(w, host) == w - host

\* aware.astimezone(central_tz).strftime("%Y-%m-%d %H:%M:%S"): the log key
FormatLogKey(i) == i + ChicagoOff

\* naive.astimezone(pytz.utc): a naive wall clock is read in the host's zone
NaiveToUtc(w, host) == w - host

\* dt.strftime('%Y-%m-%dT%H:%M:%SZ'): prints the wall-clock fields of dt and
\* a literal Z; the Gauge Data Source reads the string as UTC
LabelledUtc(w) == w

---------------------------------------------------------------------------
(* The nearest-match scan of fetch_historical_data.                        *)
(* acc = [found, diff, value, time, raised]: min_time_diff is float("inf") *)
(* while found is FALSE.                                                   *)

Abs(n) == IF n < 0 THEN 0 - n ELSE n

ScanStart == [found |-> FALSE, diff |-> 0, value |-> NaN, time |-> NA,
              raised |-> FALSE]

\* ScanStep with "<=" in place of "<": the last of several equally near
\* entries wins
ScanStepLastWins(acc, e, target, host) ==
    IF acc.raised THEN acc
    ELSE IF DateTimeRaises(e) THEN [acc EXCEPT !.raised = TRUE]
    ELSE LET entry_time == ParseIso(e.dateTime)
             time_diff == Abs(entry_time - target)
         IN IF (~acc.found) \/ time_diff <= acc.diff
            THEN IF FloatRaises(e) THEN [acc EXCEPT !.raised = TRUE]
                 ELSE [found |-> TRUE, diff |-> time_diff, value |-> Float(e),
                       time |-> TS(FormatDisplay(entry_time, host)),
                       raised |-> FALSE]
            ELSE acc

\* ScanStep with the try/except inside the loop: a malformed entry is
\* skipped and the scan goes on
ScanStepSkipMalformed(acc, e, target, host) ==
    IF DateTimeRaises(e) THEN acc
    ELSE LET entry_time == ParseIso(e.dateTime)
             time_diff == Abs(entry_time - target)
         IN IF (~acc.found) \/ time_diff < acc.diff
            THEN IF FloatRaises(e) THEN acc
                 ELSE [found |-> TRUE, diff |-> time_diff, value |-> Float(e),
                       time |-> TS(FormatDisplay(entry_time, host)),
                       raised |-> FALSE]
            ELSE acc

\* one iteration of "for entry in values" (app.py 87-94); host is the zone
\* closest_time is printed in
ScanStep(acc, e, target, host) ==
    IF acc.raised THEN acc
    ELSE IF DateTimeRaises(e) THEN [acc EXCEPT !.raised = TRUE]
    ELSE LET entry_time == ParseIso(e.dateTime)
             time_diff == Abs(entry_time - target)
         IN IF (~acc.found) \/ time_diff < acc.diff
            THEN IF FloatRaises(e) THEN [acc EXCEPT !.raised = TRUE]
                 ELSE [found |-> TRUE, diff |-> time_diff, value |-> Float(e),
                       time |-> TS(FormatDisplay(entry_time, host)),
                       raised |-> FALSE]
            ELSE acc

RECURSIVE ScanFrom(_, _, _, _, _)
ScanFrom(acc, values, k, target, host) ==
    IF k > Len(values) THEN acc
    ELSE ScanFrom(ScanStep(acc, values[k], target, host), values, k + 1,
                  target, host)

\* app.py: returns (closest_value, closest_time), or (nan, "N/A") from the
\* except clause
AppNearest(values, target, host) ==
    LET r == ScanFrom(ScanStart, values, 1, target, host)
    IN IF r.raised THEN [value |-> NaN, time |-> NA]
       ELSE [value |-> r.value, time |-> r.time]

\* record_real_time.py: returns closest_value, or nan from the except clause
RecNearest(values, target) ==
    LET r == ScanFrom(ScanStart, values, 1, target, 0)
    IN IF r.raised THEN NaN ELSE r.value

---------------------------------------------------------------------------
(* The target and search window of fetch_historical_data                   *)

\* hours_ago of the three lag fetches
LagHours == <<24, 72, 168>>

HalfWindow == HalfWindowMinutes * Minute

\* record_real_time.py 75-77, 92: the reference string is parsed without a
\* zone, the subtraction and the window are computed on that naive wall
\* clock and printed with a literal Z; distances are taken against the naive
\* target read in the host's zone
RecWindow(ref_wall, hours_ago, host) ==
    LET target_timestamp == ref_wall - hours_ago * Hour
    IN [start |-> LabelledUtc(target_timestamp - HalfWindow),
        end |-> LabelledUtc(target_timestamp + HalfWindow),
        target |-> NaiveToUtc(target_timestamp, host)]

\* app.py 71-73, 89: the reference is a UTC datetime; its wall-clock fields
\* are the instant
AppWindow(ref_instant, hours_ago) ==
    LET target_timestamp == ref_instant - hours_ago * Hour
    IN [start |-> LabelledUtc(target_timestamp - HalfWindow),
        end |-> LabelledUtc(target_timestamp + HalfWindow),
        target |-> target_timestamp]

---------------------------------------------------------------------------
(* Gauges, feature names, and Python dicts                                 *)

\* USGS_SITES, in dict order
Creeks == <<"Shoal_Creek", "Big_Nance_Creek", "Limestone_Creek", "Swan_Creek">>

\* the N of "{creek}_Lag{N}", beside LagHours
LagNames == <<1, 3, 7>>

\* the feature name "{creek}" (n = 0) or "{creek}_Lag{n}"
F(creek, n) == <<creek, n>>

\* a dict is the sequence of its <<key, value>> items in insertion order
DictHas(d, k) == \E i \in 1..Len(d) : d[i][1] = k
DictGet(d, k) == d[CHOOSE i \in 1..Len(d) : d[i][1] = k][2]
DictKeys(d) == [i \in 1..Len(d) |-> d[i][1]]
DictSet(d, k, v) ==
    IF DictHas(d, k)
    THEN [i \in 1..Len(d) |-> IF d[i][1] = k THEN <<k, v>> ELSE d[i]]
    ELSE Append(d, <<k, v>>)

\* {**a, **b}
RECURSIVE Merge(_, _)
Merge(a, b) ==
    IF b = <<>> THEN a ELSE Merge(DictSet(a, b[1][1], b[1][2]), Tail(b))

\* df[cols]: KeyError when a column is not in the frame
SelectRaises(df, cols) == \E i \in 1..Len(cols) : ~DictHas(df, cols[i])
Select(df, cols) == [i \in 1..Len(cols) |-> <<cols[i], DictGet(df, cols[i])>>]

\* for feature in feature_names_in_: if feature not in model_input.columns:
\*     model_input[feature] = np.nan
RECURSIVE FillMissing(_, _)
FillMissing(df, cols) ==
    IF cols = <<>> THEN df
    ELSE FillMissing(IF DictHas(df, cols[1]) THEN df
                     ELSE Append(df, <<cols[1], NaN>>), Tail(cols))

---------------------------------------------------------------------------
(* The Gauge Data Source: every gauge holds one observation per quarter    *)
(* of an hour; a query returns those of the window, oldest first, and may  *)
(* instead fail (HTTP 500) or answer with a body that is not the series.   *)

Flow(g) == 100 + ((g \div Quarter) % 50)

Reading(g) == Entry(Iso(g, ChicagoOff), NumStr(Flow(g)))

\* the first quarter-hour at or after start
FirstGrid(start) == ((start + Quarter - 1) \div Quarter) * Quarter

RECURSIVE GridFrom(_, _)
GridFrom(g, end) ==
    IF g > end THEN <<>> ELSE <<Reading(g)>> \o GridFrom(g + Quarter, end)

Series(start, end) == GridFrom(FirstGrid(start), end)

Http500 == [status |-> 500, kind |-> "none", values |-> <<>>]
Garbage == [status |-> 200, kind |-> "garbage", values |-> <<>>]
Ok(values) == [status |-> 200, kind |-> "series", values |-> values]

\* the answers a fetch can get: the data, or a failure while the run's
\* budget of failures lasts
Answers(data, nfaults, maxfaults) ==
    {Ok(data)} \cup (IF nfaults < maxfaults THEN {Http500, Garbage} ELSE {})

IsFault(resp) == resp.status # 200 \/ resp.kind # "series"

---------------------------------------------------------------------------
(* fetch_real_time_data, for one creek                                     *)

\* the body of the try: raises on a body without the series, on an empty
\* series (IndexError), on a bad value or a bad dateTime
RealTimeRaises(resp) ==
    \/ resp.kind # "series"
    \/ resp.values = <<>>
    \/ FloatRaises(resp.values[1])
    \/ DateTimeRaises(resp.values[1])

\* record_real_time.py 49-69: (real_time_values[creek], timestamps[creek])
RecRealTime(resp) ==
    IF resp.status = 200 /\ ~RealTimeRaises(resp)
    THEN [value |-> Float(resp.values[1]),
          time |-> TS(FormatLogKey(ParseIso(resp.values[1].dateTime)))]
    ELSE [value |-> NaN, time |-> NA]

\* app.py 45-63
AppRealTime(resp, host) ==
    IF resp.status = 200 /\ ~RealTimeRaises(resp)
    THEN [value |-> Float(resp.values[1]),
          time |-> TS(FormatDisplay(ParseIso(resp.values[1].dateTime), host))]
    ELSE [value |-> NaN, time |-> NA]

---------------------------------------------------------------------------
(* fetch_historical_data and fetch_usgs_data, given the answer             *)

\* record_real_time.py 82-102
RecHistorical(resp, target) ==
    IF resp.status = 200 /\ resp.kind = "series"
    THEN RecNearest(resp.values, target)
    ELSE NaN

\* app.py 78-100
AppHistorical(resp, target, host) ==
    IF resp.status = 200 /\ resp.kind = "series"
    THEN AppNearest(resp.values, target, host)
    ELSE [value |-> NaN, time |-> NA]

\* 1_Historical.py 39-52: float(values[-1]["value"]) if values else np.nan
UsgsData(resp) ==
    IF resp.status = 200 /\ resp.kind = "series"
    THEN IF resp.values = <<>> THEN NaN
         ELSE IF FloatRaises(resp.values[Len(resp.values)]) THEN NaN
         ELSE Float(resp.values[Len(resp.values)])
    ELSE NaN

---------------------------------------------------------------------------
(* The Recorder of record_real_time.py (lines 135-144) and the sheet       *)

\* row 1 of the sheet: the column titles 2_Graphed_Trends.py reads
\* ("Timestamp (UTC)", "Predicted Sugar Creek CFS")
Header == <<[kind |-> "title", wall |-> 0], [kind |-> "title", v |-> 0]>>

\* existing_data[2:], an off-by-one in the rows skipped
TimestampsInSheetSkipTwo(existing) ==
    {existing[i][1] : i \in 3..Len(existing)}

\* timestamps_in_sheet = [row[0] for row in existing_data[1:]]
TimestampsInSheet(existing) ==
    {existing[i][1] : i \in 2..Len(existing)}

\* if reference_timestamp not in timestamps_in_sheet: sheet.append_row(...)
AppendRow(sh, existing, key, value) ==
    IF key \notin TimestampsInSheet(existing)
    THEN Append(sh, <<key, value>>)
    ELSE sh

\* the recorder runs nothing: used by the specifications that call no run
LogIdle ==
    /\ sheet = <<Header>>
    /\ rec_pc = <<>> /\ rec_key = <<>> /\ rec_val = <<>>
    /\ existing_data = <<>>
    /\ overlapped = FALSE

\* no run of the pipeline: used by the specifications of one function
Unbound == [kind |-> "unbound", names |-> <<>>]
At(a, i, k) == [at |-> a, i |-> i, k |-> k]

PipeIdle ==
    /\ variant = "none" /\ host_off = 0 /\ model_file = "none" /\ selected = 0
    /\ pc = At("idle", 0, 0)
    /\ xgb_model = Unbound
    /\ faults = 0
    /\ real_time_data = <<>> /\ timestamps = <<>> /\ lag_data = <<>>
    /\ reference_timestamp = NA
    /\ requests = <<>> /\ observed = <<>>
    /\ model_input = <<>>
    /\ prediction = NaN
    /\ failure = "none"
    /\ appends = <<>>

---------------------------------------------------------------------------
(* SpecScan: one call of the scan on every series of the pool              *)

MaxLen == 3

ScanTimes == {0 - Quarter, Quarter, 2 * Quarter}
ScanTargets == {0, Quarter}
ScanFlows == {120, 150}

EntryPool ==
    {Entry(Iso(i, ChicagoOff), NumStr(v)) : i \in ScanTimes, v \in ScanFlows}
    \cup {Entry(Iso(Quarter, 0), NumStr(150))}
    \cup {Entry(d, NumStr(120)) : d \in {BadDateTime, NoDateTime}}
    \cup {Entry(Iso(i, ChicagoOff), v) :
            i \in {Quarter, 2 * Quarter}, v \in {BadValue, NoValue}}

SeqsUpTo(S, n) == UNION {[1..m -> S] : m \in 0..n}

Idle == [kind |-> "idle"]

Pending == [value |-> [kind |-> "pending", v |-> 0], time |-> NA]

ScanInit ==
    /\ scan_in \in [values : SeqsUpTo(EntryPool, MaxLen), target : ScanTargets,
                    host : {ChicagoOff, 0}, variant : {"app", "recorder"}]
    /\ scan_out = Pending
    /\ time_in = Idle /\ time_key = NA /\ time_out = Idle
    /\ LogIdle /\ PipeIdle

ScanCall ==
    /\ scan_out = Pending
    /\ scan_out' =
         IF scan_in.variant = "app"
         THEN AppNearest(scan_in.values, scan_in.target, scan_in.host)
         ELSE [value |-> RecNearest(scan_in.values, scan_in.target),
               time |-> NA]
    /\ UNCHANGED scan_in
    /\ UNCHANGED <<timeVars, logVars, pipeVars>>

SpecScan == ScanInit /\ [][ScanCall]_vars

---------------------------------------------------------------------------
(* Claims about the scan, under SpecScan                                   *)

ScanDone == scan_out # Pending
ScanLen == Len(scan_in.values)
Dist(k) == Abs(ParseIso(scan_in.values[k].dateTime) - scan_in.target)
WellFormed(e) == (~DateTimeRaises(e)) /\ (~FloatRaises(e))
AllWellFormed == \A k \in 1..ScanLen : WellFormed(scan_in.values[k])
Absent == [value |-> NaN, time |-> NA]

\* k is the lowest index among the entries nearest to the target
FirstNearest(k) ==
    /\ \A j \in 1..ScanLen : Dist(k) <= Dist(j)
    /\ \A j \in 1..(k - 1) : Dist(j) > Dist(k)

\* what the scan returns when it settles on entry k
Chosen(k) ==
    [value |-> Num(scan_in.values[k].value.v),
     time |-> IF scan_in.variant = "app"
              THEN TS(FormatDisplay(ParseIso(scan_in.values[k].dateTime),
                                    scan_in.host))
              ELSE NA]

\* C1: on a series of well-formed observations the scan returns Absent (NaN,
\* "N/A") when the series is empty, and otherwise the value of the entry
\* that minimizes |ts - t|, the lowest index winning an exact tie.
C1_NearestFirstWins ==
    (ScanDone /\ AllWellFormed) =>
        IF ScanLen = 0 THEN scan_out = Absent
        ELSE \E k \in 1..ScanLen : FirstNearest(k) /\ scan_out = Chosen(k)

\* C1 witness: two entries exactly as far from the target, with different
\* values, and the scan returned the earlier one.
C1_TieWitness ==
    /\ ScanDone /\ AllWellFormed /\ ScanLen >= 2
    /\ Dist(1) = Dist(2)
    /\ scan_in.values[1].value # scan_in.values[2].value
    /\ FirstNearest(1)
    /\ scan_out.value = Num(scan_in.values[1].value.v)

AnyMalformed == \E k \in 1..ScanLen : ~WellFormed(scan_in.values[k])
AnyBadDateTime == \E k \in 1..ScanLen : DateTimeRaises(scan_in.values[k])

\* entry k has an unusable value and is strictly nearer than every entry
\* before it, so its value is read
BadValueIsRead(k) ==
    /\ FloatRaises(scan_in.values[k])
    /\ \A j \in 1..(k - 1) : Dist(j) > Dist(k)

\* C10 as stated: one malformed entry anywhere in the series makes the scan
\* return Absent.
C10_AllOrNothingAsStated ==
    (ScanDone /\ AnyMalformed) => scan_out = Absent

\* C10 amended: the scan returns Absent when some entry has a missing or
\* unparseable dateTime, or when an entry that is strictly nearer to the
\* target than every entry before it has a missing or non-numeric value.  A
\* bad value in an entry that is not strictly nearer than an earlier entry is
\* never read: the scan then returns the value of the nearest entry.
C10_AbsentIffErrorRaised ==
    ScanDone =>
        IF AnyBadDateTime \/ \E k \in 1..ScanLen : BadValueIsRead(k)
        THEN scan_out = Absent
        ELSE IF ScanLen = 0 THEN scan_out = Absent
        ELSE \E k \in 1..ScanLen : FirstNearest(k) /\ scan_out = Chosen(k)

\* C10 witness: a well-formed first entry had been selected, a later entry
\* raised, and the whole window came back Absent.
C10_DiscardWitness ==
    /\ ScanDone /\ ScanLen >= 2
    /\ WellFormed(scan_in.values[1])
    /\ \E k \in 2..ScanLen : DateTimeRaises(scan_in.values[k])
    /\ scan_out = Absent

---------------------------------------------------------------------------
(* SpecTime: one observation is formatted into the reference timestamp by  *)
(* fetch_real_time_data, then handed to fetch_historical_data              *)

\* 2024-01-15T12:00:00Z, counted from 2024-01-01T00:00:00Z
Noon == 14 * 24 * Hour + 12 * Hour

TimeInstants == {Noon, Noon + Quarter, Noon + 5 * Hour + 30}

TimeInit ==
    /\ time_in \in [instant : TimeInstants, off : RawOffsets,
                    host : HostOffsets, variant : {"app", "recorder"}]
    /\ time_key = NA
    /\ time_out = Idle
    /\ scan_in = Idle /\ scan_out = Idle
    /\ LogIdle /\ PipeIdle

\* fetch_real_time_data: dateTime -> formatted_timestamp
TimeFormat ==
    /\ time_key = NA
    /\ LET raw == Iso(time_in.instant, time_in.off)
           parsed_timestamp == ParseIso(raw)
       IN time_key' = IF time_in.variant = "app"
                      THEN TS(FormatDisplay(parsed_timestamp, time_in.host))
                      ELSE TS(FormatLogKey(parsed_timestamp))
    /\ UNCHANGED <<time_in, time_out, scanVars, logVars, pipeVars>>

\* fetch_historical_data: formatted_timestamp -> startDT, endDT, target
TimeWindow ==
    /\ time_key # NA
    /\ time_out = Idle
    /\ \E k \in 1..Len(LagHours) :
         LET w == IF time_in.variant = "app"
                  THEN AppWindow(ParseDisplay(time_key.wall, time_in.host),
                                 LagHours[k])
                  ELSE RecWindow(time_key.wall, LagHours[k], time_in.host)
         IN time_out' = [kind |-> "window", hours |-> LagHours[k],
                         start |-> w.start, end |-> w.end,
                         target |-> w.target]
    /\ UNCHANGED <<time_in, time_key, scanVars, logVars, pipeVars>>

TimeNext == TimeFormat \/ TimeWindow

SpecTime == TimeInit /\ [][TimeNext]_vars

\* C7: in the recorder, the instant of an observation, formatted to the
\* 'YYYY-MM-DD HH:MM:SS' key and reparsed by fetch_historical_data (target
\* plus the lag it subtracted, in UTC), is the same absolute instant, for
\* every offset of the observation and of the host.
C7_KeyRoundTrip ==
    (time_in.variant = "recorder" /\ time_out # Idle) =>
        time_out.target + time_out.hours * Hour = time_in.instant

\* C8: startDT and endDT denote target - 30 min and target + 30 min, target
\* being the absolute instant the distances are compared against, for every
\* offset of the reference zone and of the host.
C8_WindowAroundTarget ==
    time_out # Idle =>
        /\ time_out.start = time_out.target - HalfWindow
        /\ time_out.end = time_out.target + HalfWindow

---------------------------------------------------------------------------
(* SpecLog: recorder runs, launched by a scheduler, against one sheet.     *)
(* Each run has reached line 135 with its reference_timestamp and its      *)
(* prediction; its read of the sheet and its append are two requests to    *)
(* the spreadsheet service, and other runs may act in between.             *)

MaxRuns == 3

Runs == 1..MaxRuns
LogKeys == {TS(FormatLogKey(Noon)), TS(FormatLogKey(Noon + Quarter))}

LogInit ==
    /\ sheet \in {<<Header>>, <<Header, <<TS(FormatLogKey(Noon)), Num(120)>>>>}
    /\ rec_pc = [p \in Runs |-> "idle"]
    /\ rec_key = [p \in Runs |-> NA]
    /\ rec_val = [p \in Runs |-> NaN]
    /\ existing_data = [p \in Runs |-> <<>>]
    /\ overlapped = FALSE
    /\ scan_in = Idle /\ scan_out = Idle
    /\ time_in = Idle /\ time_key = NA /\ time_out = Idle
    /\ PipeIdle

\* lines 105-133: the run fetched, found a reference timestamp and scored
\* (runs are numbered in the order they are launched)
RunScored(p) ==
    /\ rec_pc[p] = "idle"
    /\ \A q \in 1..(p - 1) : rec_pc[q] # "idle"
    /\ \E k \in LogKeys, v \in ScanFlows :
         /\ rec_key' = [rec_key EXCEPT ![p] = k]
         /\ rec_val' = [rec_val EXCEPT ![p] = Num(v)]
    /\ rec_pc' = [rec_pc EXCEPT ![p] = "read"]
    /\ UNCHANGED <<sheet, existing_data, overlapped, scanVars, timeVars,
                   pipeVars>>

\* line 136: existing_data = sheet.get_all_values()
GetAllValues(p) ==
    /\ rec_pc[p] = "read"
    /\ existing_data' = [existing_data EXCEPT ![p] = sheet]
    /\ rec_pc' = [rec_pc EXCEPT ![p] = "append"]
    /\ overlapped' = (overlapped \/ \E q \in Runs \ {p} : rec_pc[q] = "append")
    /\ UNCHANGED <<sheet, rec_key, rec_val, scanVars, timeVars, pipeVars>>

\* lines 137-144: the membership test and sheet.append_row
AppendOrSkip(p) ==
    /\ rec_pc[p] = "append"
    /\ sheet' = AppendRow(sheet, existing_data[p], rec_key[p], rec_val[p])
    /\ rec_pc' = [rec_pc EXCEPT ![p] = "done"]
    /\ UNCHANGED <<rec_key, rec_val, existing_data, overlapped, scanVars,
                   timeVars, pipeVars>>

LogNext == \E p \in Runs : RunScored(p) \/ GetAllValues(p) \/ AppendOrSkip(p)

SpecLog == LogInit /\ [][LogNext]_vars

\* the keys of column 1, and the rows that carry key k
Column1(sh) == {sh[i][1] : i \in 1..Len(sh)}
RowsOf(sh, k) == {i \in 1..Len(sh) : sh[i][1] = k}
OneRowPerKey(sh) == \A k \in Column1(sh) : Cardinality(RowsOf(sh, k)) = 1

\* the step in which run p finishes (its skip or its append)
Finishes(p) == rec_pc[p] = "append" /\ rec_pc'[p] = "done"

\* C3: while the runs do not overlap, the log holds at most one row per
\* key; a run whose key is in column 1 leaves the log unchanged, and a run
\* whose key is absent appends exactly the row [key, value] at the end,
\* every existing row staying as it was.
C3_SequentialRunsKeepOneRowPerKey ==
    [][ (~overlapped') =>
          /\ OneRowPerKey(sheet')
          /\ \A p \in Runs : Finishes(p) =>
               IF rec_key[p] \in Column1(sheet)
               THEN sheet' = sheet
               ELSE sheet' = Append(sheet, <<rec_key[p], rec_val[p]>>) ]_vars

\* C3 witness: two runs that did not overlap recorded the same key with
\* different predictions, and the log holds one row for it.
C3_SameKeyTwiceWitness ==
    /\ ~overlapped
    /\ \E p, q \in Runs :
         /\ p # q
         /\ rec_pc[p] = "done" /\ rec_pc[q] = "done"
         /\ rec_key[p] = rec_key[q] /\ rec_val[p] # rec_val[q]
         /\ rec_key[p] # TS(FormatLogKey(Noon))
         /\ Cardinality(RowsOf(sheet, rec_key[p])) = 1

\* C4: under every interleaving of the reads and appends of concurrent
\* runs, the log holds exactly one row per key.
C4_NoDuplicateRowsWhenConcurrent == OneRowPerKey(sheet)

---------------------------------------------------------------------------
(* Spec: one run of a variant, from the model load to the prediction (and, *)
(* in the recorder, the log).  Every fetch is a step of its own: its       *)
(* answer is an input from the Gauge Data Source.  What the pages only     *)
(* display (lag_timestamps, the expanders) is left out.                    *)

MaxFaults == 1

Variants == {"app", "historical", "recorder"}

\* feature_names_in_ of the pickled model: the sixteen features, creek by
\* creek, or the two of a model trained on Shoal Creek alone
FullNames ==
    <<F("Shoal_Creek", 0), F("Shoal_Creek", 1), F("Shoal_Creek", 3),
      F("Shoal_Creek", 7), F("Big_Nance_Creek", 0), F("Big_Nance_Creek", 1),
      F("Big_Nance_Creek", 3), F("Big_Nance_Creek", 7),
      F("Limestone_Creek", 0), F("Limestone_Creek", 1),
      F("Limestone_Creek", 3), F("Limestone_Creek", 7), F("Swan_Creek", 0),
      F("Swan_Creek", 1), F("Swan_Creek", 3), F("Swan_Creek", 7)>>
PairNames == <<F("Shoal_Creek", 0), F("Shoal_Creek", 1)>>

\* scpm2.pkl: absent, a model fitted without column names (it has no
\* feature_names_in_), or a model that declares its features
ModelFiles == {"missing", "no_names", "full", "pair"}

\* pickle.load(file)
Loaded(f) ==
    CASE f = "full" -> [kind |-> "model", names |-> FullNames]
      [] f = "pair" -> [kind |-> "model", names |-> PairNames]
      [] OTHER -> [kind |-> "no_names", names |-> <<>>]

\* instants of the latest observation a gauge may hold
LatestPool == {Noon, Noon + Quarter + 30}

\* a fetch, as the Gauge Data Source saw it; start and end are the instants
\* startDT and endDT denote, target the instant distances are taken from
Request(kind, creek, hours, w, ref) ==
    [kind |-> kind, creek |-> creek, hours |-> hours, start |-> w.start,
     end |-> w.end, target |-> w.target, ref |-> ref]
NoWindow == [start |-> 0, end |-> 0, target |-> 0]

Init ==
    /\ variant \in Variants
    /\ host_off \in {ChicagoOff, 0}
    /\ model_file \in ModelFiles
    /\ selected \in IF variant = "historical"
                    THEN {Noon + ChicagoOff, Noon + ChicagoOff + Quarter}
                    ELSE {0}
    /\ sheet \in IF variant = "recorder"
                 THEN {<<Header>>,
                       <<Header, <<TS(FormatLogKey(Noon)), Num(120)>>>>}
                 ELSE {<<Header>>}
    /\ pc = At("load", 0, 0)
    /\ xgb_model = Unbound
    /\ faults = 0
    /\ real_time_data = <<>> /\ timestamps = <<>> /\ lag_data = <<>>
    /\ reference_timestamp = NA
    /\ requests = <<>> /\ observed = <<>>
    /\ model_input = <<>>
    /\ prediction = NaN
    /\ failure = "none"
    /\ appends = <<>>
    /\ rec_pc = <<>> /\ rec_key = <<>> /\ rec_val = <<>>
    /\ existing_data = <<>> /\ overlapped = FALSE
    /\ scan_in = Idle /\ scan_out = Idle
    /\ time_in = Idle /\ time_key = NA /\ time_out = Idle

otherVars == <<scanVars, timeVars, rec_pc, rec_key, rec_val, existing_data,
               overlapped, cfgVars>>

Stop(how, why) == pc' = At(how, 0, 0) /\ failure' = why

\* the statement after the model load
AfterLoad == IF variant = "historical" THEN At("hist", 1, 0) ELSE At("rt", 1, 0)

\* try: pickle.load ... except FileNotFoundError: the recorder exits, the
\* pages report the error and go on with xgb_model unbound
LoadModel ==
    /\ pc.at = "load"
    /\ IF model_file = "missing"
       THEN /\ xgb_model' = Unbound
            /\ IF variant = "recorder"
               THEN Stop("exited", "FileNotFoundError")
               ELSE pc' = AfterLoad /\ failure' = failure
       ELSE /\ xgb_model' = Loaded(model_file)
            /\ pc' = AfterLoad /\ failure' = failure
    /\ UNCHANGED <<faults, real_time_data, timestamps, lag_data,
                   reference_timestamp, requests, observed, model_input,
                   prediction, appends, sheet, otherVars>>

Count(resp) == IF IsFault(resp) THEN 1 ELSE 0

\* one iteration of the loop of fetch_real_time_data
FetchRealTime ==
    /\ pc.at = "rt"
    /\ \E latest \in LatestPool :
       \E resp \in Answers(<<Entry(Iso(latest, ChicagoOff),
                                   NumStr(Flow(latest)))>>, faults, MaxFaults) :
         LET creek == Creeks[pc.i]
             r == IF variant = "app" THEN AppRealTime(resp, host_off)
                  ELSE RecRealTime(resp)
         IN /\ real_time_data' = DictSet(real_time_data, F(creek, 0), r.value)
            /\ timestamps' = DictSet(timestamps, creek, r.time)
            /\ observed' = DictSet(observed, creek,
                                   IF r.time = NA THEN NA ELSE TS(latest))
            /\ faults' = faults + Count(resp)
            /\ requests' = Append(requests,
                                  Request("rt", creek, 0, NoWindow, NA))
    /\ pc' = IF pc.i < Len(Creeks) THEN At("rt", pc.i + 1, 0)
             ELSE IF variant = "recorder" THEN At("check_ref", 0, 0)
             ELSE At("lag", 1, 1)
    /\ UNCHANGED <<xgb_model, lag_data, reference_timestamp, model_input,
                   prediction, failure, appends, sheet, otherVars>>

\* the reference check with the exit removed
ReferenceNeverMissing(ref) == FALSE

\* if reference_timestamp == "N/A": exit(1)
ReferenceMissing(ref) == ref = NA

\* the reference taken from the first gauge that has a timestamp
ReferenceAnyGauge(tss) ==
    LET ok == {i \in 1..Len(tss) : tss[i][2] # NA}
    IN IF ok = {} THEN NA
       ELSE tss[CHOOSE i \in ok : \A j \in ok : i <= j][2]

\* timestamps.get("Shoal_Creek", "N/A")
ReferenceOf(tss) ==
    IF DictHas(tss, "Shoal_Creek") THEN DictGet(tss, "Shoal_Creek") ELSE NA

\* record_real_time.py 108-111
CheckReference ==
    /\ pc.at = "check_ref"
    /\ LET ref == ReferenceOf(timestamps)
       IN /\ reference_timestamp' = ref
          /\ IF ReferenceMissing(ref)
             THEN Stop("exited", "NoReference")
             ELSE pc' = At("lag", 1, 1) /\ failure' = failure
    /\ UNCHANGED <<xgb_model, faults, real_time_data, timestamps, lag_data,
                   requests, observed, model_input, prediction, appends,
                   sheet, otherVars>>

\* the reference of every creek taken from Shoal Creek
AppReferenceShared(tss, creek) == DictGet(tss, "Shoal_Creek")

\* app.py 115: the reference of a creek's lag fetches is timestamps[creek]
AppReferenceOf(tss, creek) == DictGet(tss, creek)

\* the reference string of the lag fetches of a creek
LagReference(creek) ==
    IF variant = "app" THEN AppReferenceOf(timestamps, creek)
    ELSE reference_timestamp

\* app.py 114: if timestamps[creek] != "N/A"
\* record_real_time.py 116: if reference_timestamp != "N/A"
LagGuard(creek) ==
    IF variant = "app" THEN DictGet(timestamps, creek) # NA
    ELSE reference_timestamp # NA

AfterCreek(i) == IF i < Len(Creeks) THEN At("lag", i + 1, 1)
                 ELSE At("assemble", 0, 0)

\* the guard of the lag loop is false: the creek gets no lag fetch
LagSkip ==
    /\ pc.at = "lag" /\ pc.k = 1
    /\ ~LagGuard(Creeks[pc.i])
    /\ pc' = AfterCreek(pc.i)
    /\ UNCHANGED <<xgb_model, faults, real_time_data, timestamps, lag_data,
                   reference_timestamp, requests, observed, model_input,
                   prediction, failure, appends, sheet, otherVars>>

\* one call of fetch_historical_data in the lag loop; strptime raises
\* ValueError, outside any try, on a reference that is "N/A"
LagFetch ==
    /\ pc.at = "lag"
    /\ LagGuard(Creeks[pc.i])
    /\ LET creek == Creeks[pc.i]
           ref == LagReference(creek)
           hours == LagHours[pc.k]
       IN IF ref = NA
          THEN /\ Stop("crashed", "ValueError")
               /\ UNCHANGED <<lag_data, requests, faults>>
          ELSE LET w == IF variant = "app"
                        THEN AppWindow(ParseDisplay(ref.wall, host_off), hours)
                        ELSE RecWindow(ref.wall, hours, host_off)
               IN \E resp \in Answers(Series(w.start, w.end), faults,
                                      MaxFaults) :
                    LET value == IF variant = "app"
                                 THEN AppHistorical(resp, w.target,
                                                    host_off).value
                                 ELSE RecHistorical(resp, w.target)
                    IN /\ lag_data' = DictSet(lag_data,
                                              F(creek, LagNames[pc.k]), value)
                       /\ requests' = Append(requests,
                                             Request("lag", creek, hours, w,
                                                     ref))
                       /\ faults' = faults + Count(resp)
                       /\ failure' = failure
                       /\ pc' = IF pc.k < Len(LagHours)
                                THEN At("lag", pc.i, pc.k + 1)
                                ELSE AfterCreek(pc.i)
    /\ UNCHANGED <<xgb_model, real_time_data, timestamps,
                   reference_timestamp, observed, model_input, prediction,
                   appends, sheet, otherVars>>

\* 1_Historical.py 86-94, 114-118: one call of fetch_usgs_data; k = 0 is
\* the selected instant, k > 0 the lag of LagNames[k] days
HistFetch ==
    /\ pc.at = "hist"
    /\ LET creek == Creeks[pc.i]
           days == IF pc.k = 0 THEN 0 ELSE LagNames[pc.k]
           selected_datetime_utc == NaiveToUtc(selected, host_off)
           at == LabelledUtc(selected_datetime_utc - days * 24 * Hour)
           w == [start |-> at, end |-> at, target |-> at]
       IN \E resp \in Answers(Series(at, at), faults, MaxFaults) :
            /\ real_time_data' = DictSet(real_time_data, F(creek, days),
                                         UsgsData(resp))
            /\ requests' = Append(requests,
                                  Request("hist", creek, days * 24, w, NA))
            /\ faults' = faults + Count(resp)
    /\ pc' = IF pc.k < Len(LagNames) THEN At("hist", pc.i, pc.k + 1)
             ELSE IF pc.i < Len(Creeks) THEN At("hist", pc.i + 1, 0)
             ELSE At("assemble", 0, 0)
    /\ UNCHANGED <<xgb_model, timestamps, lag_data, reference_timestamp,
                   observed, model_input, prediction, failure, appends,
                   sheet, otherVars>>

\* record_real_time.py 122-130: missing columns are added as NaN, then the
\* declared columns are selected
RecModelInput(merged, names) == Select(FillMissing(merged, names), names)

\* the construction of model_input; reading feature_names_in_ raises
\* NameError when xgb_model is unbound and AttributeError when the model
\* has none; the pages' selection raises KeyError on an absent column
Assemble ==
    /\ pc.at = "assemble"
    /\ LET merged == Merge(real_time_data, lag_data)
       IN IF xgb_model.kind = "unbound"
          THEN Stop("crashed", "NameError") /\ model_input' = model_input
          ELSE IF xgb_model.kind = "no_names"
          THEN Stop("crashed", "AttributeError") /\ model_input' = model_input
          ELSE IF variant = "recorder"
          THEN /\ model_input' = RecModelInput(merged, xgb_model.names)
               /\ pc' = At("predict", 0, 0) /\ failure' = failure
          ELSE IF SelectRaises(merged, xgb_model.names)
          THEN Stop("crashed", "KeyError") /\ model_input' = model_input
          ELSE /\ model_input' = Select(merged, xgb_model.names)
               /\ pc' = At("predict", 0, 0) /\ failure' = failure
    /\ UNCHANGED <<xgb_model, faults, real_time_data, timestamps, lag_data,
                   reference_timestamp, requests, observed, prediction,
                   appends, sheet, otherVars>>

\* prediction = xgb_model.predict(model_input)[0]: some flow
Predict ==
    /\ pc.at = "predict"
    /\ \E v \in ScanFlows : prediction' = Num(v)
    /\ pc' = IF variant = "recorder" THEN At("record", 0, 0)
             ELSE At("done", 0, 0)
    /\ UNCHANGED <<xgb_model, faults, real_time_data, timestamps, lag_data,
                   reference_timestamp, requests, observed, model_input,
                   failure, appends, sheet, otherVars>>

\* record_real_time.py 136-144, with no other run at the sheet
Record ==
    /\ pc.at = "record"
    /\ sheet' = AppendRow(sheet, sheet, reference_timestamp, prediction)
    /\ appends' = IF sheet' # sheet
                  THEN Append(appends, <<reference_timestamp, prediction>>)
                  ELSE appends
    /\ pc' = At("done", 0, 0)
    /\ UNCHANGED <<xgb_model, faults, real_time_data, timestamps, lag_data,
                   reference_timestamp, requests, observed, model_input,
                   prediction, failure, otherVars>>

Next ==
    \/ LoadModel
    \/ FetchRealTime
    \/ CheckReference
    \/ LagSkip
    \/ LagFetch
    \/ HistFetch
    \/ Assemble
    \/ Predict
    \/ Record

Spec == Init /\ [][Next]_vars

---------------------------------------------------------------------------
(* Claims about a run, under Spec                                          *)

Assembled == IF variant = "historical" THEN real_time_data
             ELSE Merge(real_time_data, lag_data)
Scored == pc.at \in {"predict", "record", "done"}
Aborted == pc.at \in {"exited", "crashed"}
LagRequests == {requests[i] : i \in {j \in 1..Len(requests) :
                                        requests[j].kind = "lag"}}
ShoalTimestamp == IF DictHas(timestamps, "Shoal_Creek")
                  THEN DictGet(timestamps, "Shoal_Creek") ELSE TS(0)

\* C2: in every variant the row handed to the model holds exactly the
\* declared feature names in the declared order, a declared name that was
\* not assembled holding NaN, and building it never fails for want of a
\* gauge's data.
C2_RowHasDeclaredFeatures ==
    xgb_model.kind = "model" =>
        /\ failure # "KeyError"
        /\ Scored =>
             /\ DictKeys(model_input) = xgb_model.names
             /\ \A i \in 1..Len(model_input) :
                  model_input[i][2] =
                      IF DictHas(Assembled, model_input[i][1])
                      THEN DictGet(Assembled, model_input[i][1])
                      ELSE NaN

\* C5: when one fetch of one gauge fails (HTTP 500 or a malformed body),
\* whichever it is, the run is not aborted: no exception, no exit, and a
\* finished run has called predict.
C5_OneFailedFetchIsAbsorbed ==
    (xgb_model.kind = "model" /\ faults = 1) =>
        /\ ~Aborted
        /\ pc.at = "done" => prediction # NaN

\* C6: the recorder appends a row only after predict returned in the same
\* run; a run that ends in a fatal failure appends nothing, and a run that
\* got no reference timestamp issues no lag fetch either.
C6_AppendOnlyAfterScoring ==
    variant = "recorder" =>
        /\ appends # <<>> =>
             /\ pc.at = "done" /\ failure = "none" /\ prediction # NaN
             /\ appends = <<<<reference_timestamp, prediction>>>>
        /\ Aborted => appends = <<>>
        /\ ShoalTimestamp = NA =>
             /\ appends = <<>>
             /\ LagRequests = {}
             /\ ~Scored

\* C6 witness: the recorder exited for want of a reference timestamp, after
\* its four real-time fetches.
C6_NoReferenceWitness ==
    /\ variant = "recorder"
    /\ pc.at = "exited" /\ failure = "NoReference"
    /\ Len(requests) = Len(Creeks)
    /\ xgb_model.kind = "model"

TruncMinute(i) == (i \div Minute) * Minute
Own(creek) == DictGet(observed, creek)

\* C9 as stated: the target of every lag fetch of gauge g is g's own latest
\* observation instant minus the lag, in the page and in the recorder, and a
\* gauge whose timestamp is "N/A" gets no lag fetch.
C9_OwnTimestampAsStated ==
    variant \in {"app", "recorder"} =>
        \A r \in LagRequests :
            /\ Own(r.creek) # NA
            /\ r.target = Own(r.creek).wall - r.hours * Hour

\* C9 amended: in app.py the target of every lag fetch of gauge g is g's own
\* latest observation instant, cut to the whole minute by the display
\* format, minus the lag, and a gauge whose timestamp is "N/A" gets no lag
\* fetch; in record_real_time.py every lag fetch of every gauge takes
\* Shoal Creek's timestamp string as its reference.
C9_AppOwnRecorderShared ==
    /\ variant = "app" =>
         \A r \in LagRequests :
             /\ Own(r.creek) # NA
             /\ r.target = TruncMinute(Own(r.creek).wall) - r.hours * Hour
    /\ variant = "recorder" =>
         \A r \in LagRequests : r.ref # NA /\ r.ref = ShoalTimestamp

\* C9 witness: the page fetched the same lag of two gauges around different
\* targets, and skipped the gauge whose timestamp is "N/A".
C9_PerGaugeWitness ==
    /\ variant = "app" /\ pc.at = "assemble"
    /\ \E r1, r2 \in LagRequests :
         r1.creek # r2.creek /\ r1.hours = r2.hours /\ r1.target # r2.target
    /\ \E i \in 1..Len(Creeks) :
         /\ DictGet(timestamps, Creeks[i]) = NA
         /\ \A r \in LagRequests : r.creek # Creeks[i]

\* the run ended at an exit, with no lag fetch issued, nothing scored and
\* nothing written
ExitedEarly ==
    /\ pc.at = "exited"
    /\ LagRequests = {} /\ prediction = NaN /\ appends = <<>>
Ended == pc.at \in {"exited", "crashed", "done"}
ShoalFetched == DictHas(timestamps, "Shoal_Creek")
ShoalIsNA == ShoalFetched /\ DictGet(timestamps, "Shoal_Creek") = NA
LagCreeks == {r.creek : r \in LagRequests}
AllCreeks == {Creeks[i] : i \in 1..Len(Creeks)}

\* C11 as stated: a recorder run ends at an exit with no lag fetch, no
\* scoring and no write if and only if Shoal Creek's real-time fetch gave
\* the "N/A" timestamp; an appended row's key is Shoal Creek's timestamp,
\* which is the reference of the lag fetches of all four gauges.
C11_ShoalAloneDecidesAsStated ==
    variant = "recorder" =>
        /\ Ended => (ExitedEarly <=> ShoalIsNA)
        /\ \A r \in LagRequests : r.ref = ShoalTimestamp
        /\ appends # <<>> =>
             /\ appends[1][1] = ShoalTimestamp
             /\ LagCreeks = AllCreeks

\* C11 amended: in a recorder run whose model file loaded, the run ends at
\* an exit with no lag fetch, no scoring and no write if and only if Shoal
\* Creek's real-time fetch gave the "N/A" timestamp, whatever the other
\* three gauges returned; every lag fetch takes Shoal Creek's timestamp as
\* its reference, and an appended row has that timestamp, the formatted
\* latest observation of Shoal Creek, as its key, after lag fetches of all
\* four gauges.
C11_ShoalDecidesOnceLoaded ==
    (variant = "recorder" /\ xgb_model # Unbound) =>
        /\ Ended => (ExitedEarly <=> ShoalIsNA)
        /\ ShoalIsNA =>
             /\ LagRequests = {} /\ ~Scored /\ appends = <<>>
             /\ pc.at \in {"rt", "check_ref", "exited"}
        /\ (ShoalFetched /\ ~ShoalIsNA) => pc.at # "exited"
        /\ \A r \in LagRequests : r.ref = ShoalTimestamp
        /\ appends # <<>> =>
             /\ Len(appends) = 1
             /\ appends[1][1] = ShoalTimestamp
             /\ Own("Shoal_Creek") # NA
             /\ appends[1][1] = TS(FormatLogKey(Own("Shoal_Creek").wall))
             /\ LagCreeks = AllCreeks
             /\ sheet[Len(sheet)][1] = ShoalTimestamp

\* C11 witness: the recorder appended a row keyed by Shoal Creek's timestamp
\* after lag fetches of all four gauges, although another gauge's real-time
\* fetch gave "N/A".
C11_OtherGaugeMissingWitness ==
    /\ variant = "recorder" /\ pc.at = "done"
    /\ appends # <<>> /\ appends[1][1] = ShoalTimestamp
    /\ LagCreeks = AllCreeks
    /\ \E i \in 1..Len(Creeks) :
         Creeks[i] # "Shoal_Creek" /\ DictGet(timestamps, Creeks[i]) = NA

====
